---- MODULE Spec2Model ----
(***************************************************************************)
(* A model of traitschema: Schema (schema.py) and the bundler (io.py).     *)
(*                                                                         *)
(* Python values are records [k, dt, cols, d]:                             *)
(*   k    the Python type: "None", "float", "int", "str", "list",          *)
(*        "ndarray" (1-d), "ndarray0" (0-d), "recarray"                    *)
(*   dt   the dtype (or, for a list, the type of its items)                *)
(*   cols the (name, dtype) columns of a structured dtype, else << >>      *)
(*   d    the items, row-major; every item is a sequence of integers: a    *)
(*        number n is <<n>>, a text its code points, a byte string its     *)
(*        bytes                                                            *)
(***************************************************************************)
EXTENDS Integers, Sequences, FiniteSets, TLC

VARIABLES fs, last, tmp, run

vars == <<fs, last, tmp, run>>

\* The longest array an instance holds.
MaxLen == 2
\* The most scratch directories that exist at one time.
MaxTmp == 2

Val(k, dt, cols, d) == [k |-> k, dt |-> dt, cols |-> cols, d |-> d]

None == Val("None", "-", <<>>, <<>>)
PyFloat(n) == Val("float", "f8", <<>>, <<<<n>>>>)
PyInt(n) == Val("int", "i8", <<>>, <<<<n>>>>)
PyStr(s) == Val("str", "U", <<>>, <<s>>)
PyList(t, d) == Val("list", t, <<>>, d)
NdArray(dt, d) == Val("ndarray", dt, <<>>, d)

IsNumeric(dt) == dt \in {"f8", "i4", "i8", "float", "int"}
IsArrayKind(v) == v.k \in {"ndarray", "ndarray0", "recarray"}

\* The printed form of a number as text (numbers of the model are 0..9).
NumStr(dt, n) == IF dt \in {"f8", "float"} THEN <<48 + n, 46, 48>> ELSE <<48 + n>>

(***************************************************************************)
(* The trait facility: the declared fields of the schema classes of        *)
(* test.py and the validation a trait applies on assignment.               *)
(***************************************************************************)
NoDesc == "(no desc)"

Trait(kind, dtype, desc) ==
    [trait |-> kind, dtype |-> dtype, desc |-> desc,
     array |-> kind \in {"Array", "ArrayOrNone"}]

SomeSchema == [name |-> "SomeSchema", module |-> "test", desc |-> NoDesc]
MySchema(desc) == [name |-> "MySchema", module |-> "test", desc |-> desc]

Classes == {SomeSchema, MySchema("a number"), MySchema(NoDesc)}

\* class_visible_traits(): the declared fields, in declaration order.
class_visible_traits(cls) ==
    IF cls.name = "SomeSchema" THEN <<"x", "y", "z", "name">>
    ELSE <<"u", "v", "w", "x", "y", "z">>

Range(s) == {s[i] : i \in 1..Len(s)}

FieldSet(cls) == Range(class_visible_traits(cls))

trait(cls, name) ==
    IF cls.name = "SomeSchema"
    THEN CASE name = "x" -> Trait("Array", "f8", NoDesc)
           [] name = "y" -> Trait("Array", "any", NoDesc)
           [] name = "z" -> Trait("ArrayOrNone", "any", NoDesc)
           [] OTHER -> Trait("CStr", "any", NoDesc)
    ELSE CASE name = "u" -> Trait("ArrayOrNone", "any", NoDesc)
           [] name = "v" -> Trait("Array", "any", cls.desc)
           [] name = "w" -> Trait("Float", "any", cls.desc)
           [] name = "x" -> Trait("Array", "f8", cls.desc)
           [] name = "y" -> Trait("Array", "i4", cls.desc)
           [] OTHER -> Trait("Array", "U", cls.desc)

\* str(value), as CStr casts: the items of a text, else its printed form.
StrOf(v) ==
    CASE v.k = "str" -> v.d[1]
      [] v.k = "ndarray0" /\ v.dt = "U" -> v.d[1]
      [] v.k = "None" -> <<78, 111, 110, 101>>
      [] v.k \in {"float", "int"} -> NumStr(v.dt, v.d[1][1])
      [] OTHER -> <<63>>

\* numpy.asarray(value, dtype): the array, or no array when an item does not
\* convert ("any": the dtype is inferred from the value).
CanCast(v, dtype) ==
    \/ dtype = "any"
    \/ dtype = v.dt
    \/ IsNumeric(dtype) /\ IsNumeric(v.dt)
    \/ dtype = "U" /\ (IsNumeric(v.dt) \/ v.dt = "str")

ListDtype(t) ==
    CASE t = "float" -> "f8"
      [] t = "int" -> "i8"
      [] t = "str" -> "U"
      [] t = "bytes" -> "S"
      [] OTHER -> t

CastItems(v, dtype) ==
    IF dtype = "U" /\ IsNumeric(v.dt)
    THEN [i \in 1..Len(v.d) |-> NumStr(v.dt, v.d[i][1])]
    ELSE v.d

AsArray(v, dtype) ==
    LET kind == IF v.k = "list" THEN "ndarray" ELSE v.k
        from == IF v.k = "list" THEN ListDtype(v.dt) ELSE v.dt
    IN  IF dtype = "any" \/ dtype = from
        THEN Val(kind, from, v.cols, v.d)
        ELSE Val(kind, dtype, <<>>, CastItems(v, dtype))

\* Whether a Float trait takes a 0-d array depends on the traits release:
\* castFloat is the release's answer.
Validate(t, v, castFloat) ==
    CASE t.trait = "CStr" -> [ok |-> TRUE, v |-> PyStr(StrOf(v))]
      [] t.trait = "Float" ->
            IF v.k \in {"float", "int"} \/ (castFloat /\ v.k = "ndarray0" /\ IsNumeric(v.dt))
            THEN [ok |-> TRUE, v |-> PyFloat(v.d[1][1])]
            ELSE [ok |-> FALSE, v |-> v]
      [] OTHER ->
            IF v.k = "None"
            THEN [ok |-> t.trait = "ArrayOrNone", v |-> v]
            ELSE IF (IsArrayKind(v) \/ v.k = "list") /\ CanCast(v, t.dtype)
                 THEN [ok |-> TRUE, v |-> AsArray(v, t.dtype)]
                 ELSE [ok |-> FALSE, v |-> v]

\* The value of a field nobody assigned.
DefaultValue(t) ==
    CASE t.trait = "CStr" -> PyStr(<<>>)
      [] t.trait = "Float" -> PyFloat(0)
      [] t.trait = "ArrayOrNone" -> None
      [] OTHER -> NdArray(IF t.dtype = "any" THEN "f8" ELSE t.dtype, <<>>)

Instance(cls, f) == [cls |-> cls, f |-> f]

Defaults(cls) == Instance(cls, [n \in FieldSet(cls) |-> DefaultValue(trait(cls, n))])

NoObj == Instance([name |-> "(none)", module |-> "", desc |-> NoDesc], <<>>)

Result(err, why, obj) == [err |-> err, why |-> why, obj |-> obj]

(***************************************************************************)
(* Schema.__init__ with keywords: HasTraits.__init__ assigns every keyword *)
(* (validating those that are traits, and taking any other name as a plain *)
(* attribute), then each keyword is checked against the declared traits.   *)
(***************************************************************************)
Schema_init(cls, kwargs, castFloat) ==
    LET keys == DOMAIN kwargs
        declared == keys \cap FieldSet(cls)
        checked == [n \in declared |-> Validate(trait(cls, n), kwargs[n], castFloat)]
    IN  IF \E n \in declared : ~checked[n].ok
        THEN Result("TraitError", "value", NoObj)
        ELSE IF \E n \in keys : n \notin FieldSet(cls)
             THEN Result("RuntimeError", "trait is not in class", NoObj)
             ELSE Result("ok", "",
                         Instance(cls, [n \in FieldSet(cls) |->
                                          IF n \in declared THEN checked[n].v
                                          ELSE DefaultValue(trait(cls, n))]))

\* to_dict(): all visible traits as a dictionary.
to_dict(S) == S.f

(***************************************************************************)
(* Paths and files.  A path is a directory (0: the caller's directory,     *)
(* i > 0: scratch directory i) and the dot-separated parts of the name.    *)
(* fs maps each existing path to its file.                                 *)
(***************************************************************************)
Path(dir, parts) == [dir |-> dir, parts |-> parts]

\* os.path.splitext(filename): the stem and the extension.
splitext(p) ==
    IF Len(p.parts) > 1
    THEN <<SubSeq(p.parts, 1, Len(p.parts) - 1), p.parts[Len(p.parts)]>>
    ELSE <<p.parts, "">>

Put(files, p, file) ==
    [q \in DOMAIN files \cup {p} |-> IF q = p THEN file ELSE files[q]]

Remove(files, ps) == [q \in DOMAIN files \ ps |-> files[q]]

NpzFile(entries) == [t |-> "npz", entries |-> entries]
H5File(attrs, dsets) == [t |-> "h5", attrs |-> attrs, dsets |-> dsets]
TextFile(body) == [t |-> "text", body |-> body]

(***************************************************************************)
(* The npz codec.  numpy.savez stores every value as an array: a scalar as *)
(* a 0-d array, None as a pickled 0-d object array, a record array by its  *)
(* compound dtype (the record class itself is not stored).                 *)
(***************************************************************************)
AsAnyArray(v) ==
    CASE v.k = "None" -> Val("ndarray0", "O", <<>>, <<>>)
      [] v.k \in {"float", "int", "str"} -> Val("ndarray0", v.dt, <<>>, v.d)
      [] v.k = "list" -> Val("ndarray", ListDtype(v.dt), <<>>, v.d)
      [] v.k = "recarray" -> Val("ndarray", v.dt, v.cols, v.d)
      [] OTHER -> v

to_npz(S) ==
    LET attrs == to_dict(S)
    IN  NpzFile([n \in DOMAIN attrs |-> AsAnyArray(attrs[n])])

\* numpy.load refuses a pickled object array unless allow_pickle, whose
\* default depends on the numpy release.
from_npz(cls, file, allowPickle, castFloat) ==
    IF \E n \in DOMAIN file.entries : file.entries[n].dt = "O" /\ ~allowPickle
    THEN Result("ValueError", "object arrays cannot be loaded", NoObj)
    ELSE Schema_init(cls, file.entries, castFloat)

(***************************************************************************)
(* The JSON codec.  A JSON text is the document it spells: null, a number  *)
(* written as a float or as an integer, a string, an array of such items,  *)
(* or the object of the fields.  Empty is the text of no characters.       *)
(***************************************************************************)
JVal(j, dt, d) == [j |-> j, dt |-> dt, d |-> d]
JNull == JVal("null", "-", <<>>)
Empty == JVal("empty", "-", <<>>)
JObj(m) == [j |-> "obj", m |-> m]

\* ndarray.tolist(): the type of the Python items of an array.
PyType(dt) ==
    CASE dt = "f8" -> "float"
      [] dt \in {"i4", "i8"} -> "int"
      [] dt = "U" -> "str"
      [] dt = "S" -> "bytes"
      [] OTHER -> dt

\* What json.dumps does with one value, _NumpyJsonEncoder.default included:
\* the JSON item, or the error raised.
Encode(v) ==
    CASE v.k = "None" -> [err |-> "ok", j |-> JNull]
      [] v.k \in {"float", "int"} -> [err |-> "ok", j |-> JVal("num", v.k, v.d)]
      [] v.k = "str" -> [err |-> "ok", j |-> JVal("str", "str", v.d)]
      [] v.k = "list" ->
            IF v.dt = "bytes" THEN [err |-> "TypeError", j |-> JNull]
            ELSE [err |-> "ok", j |-> JVal("arr", v.dt, v.d)]
      [] v.k = "recarray" -> [err |-> "RuntimeError", j |-> JNull]
      [] v.k = "ndarray" ->
            IF v.dt \in {"S", "O"} THEN [err |-> "TypeError", j |-> JNull]
            ELSE [err |-> "ok", j |-> JVal("arr", PyType(v.dt), v.d)]
      [] OTHER ->
            IF v.dt \in {"S", "O"} THEN [err |-> "TypeError", j |-> JNull]
            ELSE [err |-> "ok",
                  j |-> JVal(IF v.dt = "U" THEN "str" ELSE "num", PyType(v.dt), v.d)]

\* The first field, in declaration order, that json.dumps cannot encode (0: none).
FirstBad(S) ==
    LET names == class_visible_traits(S.cls)
        bad == {i \in 1..Len(names) : Encode(S.f[names[i]]).err # "ok"}
    IN  IF bad = {} THEN 0 ELSE CHOOSE i \in bad : \A k \in bad : i <= k

\* to_json(): the JSON text, or the encoder's error and no text.
to_json(S) ==
    LET data == [n \in FieldSet(S.cls) |-> S.f[n]]
        i == FirstBad(S)
    IN  IF i # 0
        THEN [err |-> Encode(data[class_visible_traits(S.cls)[i]]).err, text |-> Empty]
        ELSE [err |-> "ok", text |-> JObj([n \in DOMAIN data |-> Encode(data[n]).j])]

\* json.loads of one item.
Decode(j) ==
    CASE j.j = "null" -> None
      [] j.j = "num" -> Val(j.dt, IF j.dt = "float" THEN "f8" ELSE "i8", <<>>, j.d)
      [] j.j = "str" -> Val("str", "U", <<>>, j.d)
      [] OTHER -> PyList(j.dt, j.d)

\* from_json(data): parse the text, a string or an open file alike, and
\* construct from the keys of the object.
from_json(cls, text, castFloat) ==
    IF text.j # "obj"
    THEN Result("ValueError", "no JSON document", NoObj)
    ELSE Schema_init(cls, [n \in DOMAIN text.m |-> Decode(text.m[n])], castFloat)

\* What from_json is given: a str, whose characters are the text, or a file
\* open for reading, whose content is.
StrData(text) == [k |-> "str", text |-> text]
OpenFile(files, p) == [k |-> "file", text |-> files[p].body]

\* The characters of a file name: a text that spells no JSON document.
NotJson == JVal("invalid", "-", <<>>)

\* A from_json that parsed strings only.
from_json_StrOnly(cls, data, castFloat) ==
    IF data.k # "str"
    THEN Result("TypeError", "the JSON object must be str", NoObj)
    ELSE from_json(cls, data.text, castFloat)

\* from_json(data), by the type of data: json.load reads the open file and
\* parses what it read, json.loads parses the string.
from_json_of(cls, data, castFloat) ==
    IF data.k # "str"
    THEN from_json(cls, data.text, castFloat)
    ELSE from_json(cls, data.text, castFloat)

(***************************************************************************)
(* Text encodings: str.encode and bytes.decode for utf8, latin1, ascii and *)
(* utf16 (little endian, no byte order mark).                              *)
(***************************************************************************)
EncodeChar(c, encoding) ==
    CASE encoding = "utf8" ->
            IF c < 128 THEN <<c>>
            ELSE IF c < 2048 THEN <<192 + (c \div 64), 128 + (c % 64)>>
            ELSE <<224 + (c \div 4096), 128 + ((c \div 64) % 64), 128 + (c % 64)>>
      [] encoding = "utf16" -> <<c % 256, c \div 256>>
      [] OTHER -> <<c>>

CanEncode(s, encoding) ==
    \A i \in 1..Len(s) :
        CASE encoding \in {"utf8", "utf16"} -> TRUE
          [] encoding = "latin1" -> s[i] < 256
          [] OTHER -> s[i] < 128

RECURSIVE EncodeStr(_, _)
EncodeStr(s, encoding) ==
    IF s = <<>> THEN <<>>
    ELSE EncodeChar(Head(s), encoding) \o EncodeStr(Tail(s), encoding)

\* The length of the utf8 sequence a lead byte opens (0: no lead byte).
Utf8Len(b) ==
    IF b < 128 THEN 1
    ELSE IF b >= 192 /\ b < 224 THEN 2
    ELSE IF b >= 224 /\ b < 240 THEN 3
    ELSE 0

IsCont(b) == b >= 128 /\ b < 192

RECURSIVE CanDecode(_, _)
CanDecode(b, encoding) ==
    IF b = <<>> THEN TRUE
    ELSE CASE encoding = "utf8" ->
                LET n == Utf8Len(b[1])
                IN  /\ n > 0
                    /\ Len(b) >= n
                    /\ \A i \in 2..n : IsCont(b[i])
                    /\ CanDecode(SubSeq(b, n + 1, Len(b)), encoding)
           [] encoding = "utf16" -> Len(b) % 2 = 0
           [] encoding = "latin1" -> TRUE
           [] OTHER -> \A i \in 1..Len(b) : b[i] < 128

RECURSIVE DecodeBytes(_, _)
DecodeBytes(b, encoding) ==
    IF b = <<>> THEN <<>>
    ELSE IF encoding = "utf8"
         THEN LET n == Utf8Len(b[1])
                  c == CASE n = 1 -> b[1]
                         [] n = 2 -> (b[1] - 192) * 64 + (b[2] - 128)
                         [] OTHER -> (b[1] - 224) * 4096 + (b[2] - 128) * 64 + (b[3] - 128)
              IN  <<c>> \o DecodeBytes(SubSeq(b, n + 1, Len(b)), encoding)
         ELSE IF encoding = "utf16"
              THEN <<b[1] + 256 * b[2]>> \o DecodeBytes(SubSeq(b, 3, Len(b)), encoding)
              ELSE <<b[1]>> \o DecodeBytes(Tail(b), encoding)

(***************************************************************************)
(* The HDF5 codec.  An h5 file holds root attributes and named datasets;   *)
(* a dataset holds its data as h5py reads it back, its attributes and the  *)
(* storage options it was created with.  The arrays of the model are not   *)
(* empty.                                                                  *)
(***************************************************************************)
\* The width of the byte and text columns of a converted record array.
StrWidth == 256

Truncate(s) == IF Len(s) > StrWidth THEN SubSeq(s, 1, StrWidth) ELSE s

\* The column of item i of a structured array (the items are row-major).
ColOf(v, i) == v.cols[((i - 1) % Len(v.cols)) + 1]

\* data.astype(final_dtypes): the columns of dtype `from` become columns of
\* dtype `to`; numpy converts between text and bytes as ascii.
CanRetype(v, from) ==
    \A i \in 1..Len(v.d) :
        ColOf(v, i).dt = from =>
            IF from = "U" THEN CanEncode(v.d[i], "ascii") ELSE CanDecode(v.d[i], "ascii")

Retype(v, from, to) ==
    Val(v.k, v.dt,
        [c \in 1..Len(v.cols) |->
            IF v.cols[c].dt = from THEN [name |-> v.cols[c].name, dt |-> to] ELSE v.cols[c]],
        [i \in 1..Len(v.d) |->
            IF ColOf(v, i).dt = from
            THEN Truncate(IF from = "U" THEN EncodeStr(v.d[i], "ascii")
                          ELSE DecodeBytes(v.d[i], "ascii"))
            ELSE v.d[i]])

\* str(type(data)), the dataset's type attribute.
TypeName(v) ==
    CASE v.k = "recarray" -> "<class 'numpy.recarray'>"
      [] v.k \in {"ndarray", "ndarray0"} -> "<class 'numpy.ndarray'>"
      [] v.k = "list" -> "<class 'list'>"
      [] v.k = "float" -> "<class 'float'>"
      [] v.k = "int" -> "<class 'int'>"
      [] OTHER -> "<class 'str'>"

RecarrayType == "<class 'numpy.recarray'>"

HdfOpts(mode, compression, compression_opts, encode_string_arrays, encoding) ==
    [mode |-> mode, compression |-> compression, compression_opts |-> compression_opts,
     encode_string_arrays |-> encode_string_arrays, encoding |-> encoding]

\* to_hdf's defaults.
DefaultOpts == HdfOpts("w", "None", "None", TRUE, "utf8")

\* The unicode workaround of to_hdf: the data handed to create_dataset.
\* (~data_is_recarray is true of either bool, so the first test is the dtype's.)
EncodedData(S, name, o) ==
    LET data == S.f[name]
    IN  IF trait(S.cls, name).array /\ o.encode_string_arrays
        THEN IF data.dt = "U"
             THEN IF \A i \in 1..Len(data.d) : CanEncode(data.d[i], o.encoding)
                  THEN [err |-> "ok",
                        data |-> PyList("bytes", [i \in 1..Len(data.d) |->
                                                    EncodeStr(data.d[i], o.encoding)])]
                  ELSE [err |-> "UnicodeEncodeError", data |-> data]
             ELSE IF data.k = "recarray"
                  THEN IF CanRetype(data, "U")
                       THEN [err |-> "ok", data |-> Retype(data, "U", "S")]
                       ELSE [err |-> "UnicodeEncodeError", data |-> data]
                  ELSE [err |-> "ok", data |-> data]
        ELSE [err |-> "ok", data |-> data]

\* The keyword arguments to_hdf adds for a chunked dataset.
compression_kwargs(chunks, o) ==
    IF chunks /\ o.compression # "None"
    THEN IF o.compression_opts # "None"
         THEN [compression |-> o.compression, compression_opts |-> o.compression_opts]
         ELSE [compression |-> o.compression]
    ELSE <<>>

HasText(v) ==
    \/ v.k # "str" /\ v.dt \in {"U", "O"}
    \/ \E c \in 1..Len(v.cols) : v.cols[c].dt = "U"

\* An item of a fixed-width byte string dtype: the bytes are padded with
\* zero bytes to the width, and read back without their trailing zero bytes.
StripNul(b) ==
    LET kept == {i \in 1..Len(b) : b[i] # 0}
    IN  IF kept = {} THEN <<>>
        ELSE SubSeq(b, 1, CHOOSE i \in kept : \A k \in kept : k <= i)

\* The items of v as an array of its dtype holds them.
FixedWidth(v) ==
    [i \in 1..Len(v.d) |->
        IF (IF v.cols = <<>> THEN ListDtype(v.dt) ELSE ColOf(v, i).dt) = "S"
        THEN StripNul(v.d[i])
        ELSE v.d[i]]

\* The data as the dataset holds it: a list becomes an array, a record array
\* an array of its compound dtype.
Stored(v) ==
    CASE v.k = "list" -> Val("ndarray", ListDtype(v.dt), <<>>, FixedWidth(v))
      [] v.k = "recarray" -> Val("ndarray", v.dt, v.cols, FixedWidth(v))
      [] OTHER -> v

\* h5py's create_dataset: the error it raises for this data and these options
\* on this file, in the order h5py checks ("ok": none).
CreateError(file, name, data, chunks, kwargs) ==
    CASE HasText(data) ->
            [err |-> "TypeError", why |-> "no conversion path for dtype"]
      [] ~HasText(data) /\ chunks /\ data.k \notin {"ndarray", "recarray", "list"} ->
            [err |-> "TypeError", why |-> "scalar datasets don't support chunk/filter options"]
      [] OTHER ->
            IF "compression_opts" \in DOMAIN kwargs /\ kwargs.compression = "lzf"
            THEN [err |-> "ValueError", why |-> "LZF compression filter accepts no options"]
            ELSE IF name \in DOMAIN file.dsets
                 THEN [err |-> "RuntimeError", why |-> "name already exists"]
                 ELSE [err |-> "ok", why |-> ""]

\* A to_hdf that gave every dataset a desc, declared or not.
DatasetAttrs_AlwaysDesc(tr, data) == [type |-> TypeName(data), desc |-> tr.desc]

\* The attributes to_hdf gives a dataset: its type and, when the trait has a
\* description, its desc.
DatasetAttrs(tr, data) ==
    IF tr.desc # NoDesc
    THEN [type |-> TypeName(data), desc |-> tr.desc]
    ELSE [type |-> TypeName(data)]

\* One turn of to_hdf's loop over the traits: skip, fail, or the dataset.
HdfStep(file, S, name, o) ==
    LET tr == trait(S.cls, name)
        enc == EncodedData(S, name, o)
        chunks == tr.array
        kwargs == compression_kwargs(chunks, o)
        made == CreateError(file, name, enc.data, chunks, kwargs)
        attrs == DatasetAttrs(tr, enc.data)
    IN  IF S.f[name].k = "None" THEN [err |-> "skip", why |-> ""]
        ELSE IF enc.err # "ok" THEN [err |-> enc.err, why |-> "encode"]
        ELSE IF made.err # "ok" THEN made
        ELSE [err |-> "ok", why |-> "",
              dset |-> [data |-> Stored(enc.data), attrs |-> attrs,
                        chunks |-> chunks, kwargs |-> kwargs]]

\* An h5py.File that opened what is there in every mode.
OpenH5_KeepsContent(files, p, mode) ==
    IF p \in DOMAIN files
    THEN IF files[p].t = "h5" THEN [err |-> "ok", file |-> files[p]]
         ELSE [err |-> "OSError", file |-> files[p]]
    ELSE [err |-> "ok", file |-> H5File(<<>>, <<>>)]

\* h5py.File(filename, mode): "w" creates or truncates, "a" opens what is
\* there or creates.
OpenH5(files, p, mode) ==
    IF mode = "a" /\ p \in DOMAIN files
    THEN IF files[p].t = "h5" THEN [err |-> "ok", file |-> files[p]]
         ELSE [err |-> "OSError", file |-> files[p]]
    ELSE [err |-> "ok", file |-> H5File(<<>>, <<>>)]

\* to_hdf(filename, mode, compression, compression_opts, encode_string_arrays,
\* encoding): the error raised and the files afterwards.  The file is opened
\* first; the datasets are created one by one until one fails (stop: the
\* first trait, in declaration order, whose turn fails; 0: none); the root
\* attributes are set after the last.
to_hdf(files, p, S, o) ==
    LET opened == OpenH5(files, p, o.mode)
        file == opened.file
        names == class_visible_traits(S.cls)
        steps == [i \in 1..Len(names) |-> HdfStep(file, S, names[i], o)]
        bad == {i \in 1..Len(names) : steps[i].err \notin {"ok", "skip"}}
        stop == IF bad = {} THEN 0 ELSE CHOOSE i \in bad : \A k \in bad : i <= k
        upto == IF stop = 0 THEN Len(names) ELSE stop - 1
        new == {i \in 1..upto : steps[i].err = "ok"}
        dsets == [n \in DOMAIN file.dsets \cup {names[i] : i \in new} |->
                    IF \E i \in new : names[i] = n
                    THEN steps[CHOOSE i \in new : names[i] = n].dset
                    ELSE file.dsets[n]]
        attrs == IF stop # 0 THEN file.attrs
                 ELSE [a \in DOMAIN file.attrs \cup {"classname", "python_module"} |->
                          CASE a = "classname" -> S.cls.name
                            [] a = "python_module" -> S.cls.module
                            [] OTHER -> file.attrs[a]]
    IN  IF opened.err # "ok"
        THEN [err |-> opened.err, why |-> "not an HDF5 file", files |-> files]
        ELSE [err |-> IF stop = 0 THEN "ok" ELSE steps[stop].err,
              why |-> IF stop = 0 THEN "" ELSE steps[stop].why,
              files |-> Put(files, p, H5File(attrs, dsets))]

\* One turn of from_hdf's loop: the value assigned to the trait.
HdfRead(cls, dset, name, decode_string_arrays, encoding, castFloat) ==
    LET tr == trait(cls, name)
        data == dset.data
        data_is_recarray == dset.attrs.type = RecarrayType
        decoded ==
            IF tr.array /\ decode_string_arrays
            THEN IF data.dt = "S"
                 THEN IF \A i \in 1..Len(data.d) : CanDecode(data.d[i], encoding)
                      THEN [err |-> "ok",
                            data |-> PyList("str", [i \in 1..Len(data.d) |->
                                                      DecodeBytes(data.d[i], encoding)])]
                      ELSE [err |-> "UnicodeDecodeError", data |-> data]
                 ELSE IF data_is_recarray
                      THEN IF CanRetype(data, "S")
                           THEN [err |-> "ok", data |-> Retype(data, "S", "U")]
                           ELSE [err |-> "UnicodeDecodeError", data |-> data]
                      ELSE [err |-> "ok", data |-> data]
            ELSE [err |-> "ok", data |-> data]
        checked == Validate(tr, decoded.data, castFloat)
    IN  IF "type" \notin DOMAIN dset.attrs THEN [err |-> "KeyError", v |-> data]
        ELSE IF decoded.err # "ok" THEN [err |-> decoded.err, v |-> data]
        ELSE IF ~checked.ok THEN [err |-> "TraitError", v |-> data]
        ELSE [err |-> "ok", v |-> checked.v]

\* from_hdf(filename, decode_string_arrays, encoding): an instance of the
\* defaults, with every trait that is a dataset of the file assigned.
from_hdf(cls, file, decode_string_arrays, encoding, castFloat) ==
    LET names == class_visible_traits(cls)
        present == {n \in FieldSet(cls) : n \in DOMAIN file.dsets}
        read == [n \in present |->
                    HdfRead(cls, file.dsets[n], n, decode_string_arrays, encoding, castFloat)]
        bad == {i \in 1..Len(names) : names[i] \in present /\ read[names[i]].err # "ok"}
        self == Defaults(cls)
    IN  IF file.t # "h5" THEN Result("OSError", "not an HDF5 file", NoObj)
        ELSE IF bad # {}
             THEN Result(read[names[CHOOSE i \in bad : \A k \in bad : i <= k]].err,
                         "dataset", NoObj)
             ELSE Result("ok", "",
                         Instance(cls, [n \in FieldSet(cls) |->
                                          IF n \in present THEN read[n].v ELSE self.f[n]]))

(***************************************************************************)
(* save and load: the codec is chosen by the extension of the file name.   *)
(***************************************************************************)
\* A save that opened the file before looking the extension up.
save_OpenFirst(files, p, S) ==
    LET ext == splitext(p)[2]
        opened == Put(files, p, TextFile(Empty))
        json == to_json(S)
    IN  CASE ext \notin {"npz", "h5", "json"} ->
                [err |-> "KeyError", why |-> ext, files |-> opened]
          [] ext = "npz" -> [err |-> "ok", why |-> "", files |-> Put(files, p, to_npz(S))]
          [] ext = "h5" -> to_hdf(files, p, S, DefaultOpts)
          [] OTHER ->
                IF json.err # "ok"
                THEN [err |-> json.err, why |-> "to_json", files |-> opened]
                ELSE [err |-> "ok", why |-> "", files |-> Put(opened, p, TextFile(json.text))]

\* save(filename): the error raised and the files afterwards.
save(files, p, S) ==
    LET ext == splitext(p)[2]
        opened == Put(files, p, TextFile(Empty))
        json == to_json(S)
    IN  CASE ext \notin {"npz", "h5", "json"} ->
                [err |-> "KeyError", why |-> ext, files |-> files]
          [] ext = "npz" -> [err |-> "ok", why |-> "", files |-> Put(files, p, to_npz(S))]
          [] ext = "h5" -> to_hdf(files, p, S, DefaultOpts)
          [] OTHER ->
                IF json.err # "ok"
                THEN [err |-> json.err, why |-> "to_json", files |-> opened]
                ELSE [err |-> "ok", why |-> "", files |-> Put(opened, p, TextFile(json.text))]

\* load(filename): the instance, or the error raised.
load(cls, files, p, allowPickle, castFloat) ==
    LET ext == splitext(p)[2]
    IN  CASE ext \notin {"npz", "h5", "json"} -> Result("KeyError", ext, NoObj)
          [] ext \in {"npz", "h5", "json"} /\ p \notin DOMAIN files ->
                Result(IF ext = "h5" THEN "OSError" ELSE "FileNotFoundError",
                       "no such file", NoObj)
          [] ext = "npz" /\ p \in DOMAIN files ->
                from_npz(cls, files[p], allowPickle, castFloat)
          [] ext = "h5" /\ p \in DOMAIN files ->
                from_hdf(cls, files[p], TRUE, "utf8", castFloat)
          [] OTHER -> from_json(cls, files[p].body, castFloat)

(***************************************************************************)
(* The inputs: the instances and keyword sets of test.py, cut to MaxLen.   *)
(***************************************************************************)
arange(n) == [i \in 1..n |-> <<i - 1>>]

\* Two rows of a text column and an integer column.
sample_recarray ==
    Val("recarray", "V",
        <<[name |-> "field_1", dt |-> "U"], [name |-> "field_2", dt |-> "i8"]>>,
        <<<<115>>, <<0>>, <<97>>, <<1>>>>)

\* An ascii text, a latin1 text and a text outside latin1.
Texts == <<<<97>>, <<233, 98>>, <<8364>>>>

UnicodeArray(k, n) == NdArray("U", [i \in 1..n |-> Texts[((k + i - 2) % Len(Texts)) + 1]])

SomeInstances ==
    {Instance(SomeSchema, [x |-> NdArray("f8", arange(MaxLen)), y |-> y, z |-> z,
                           name |-> PyStr(<<97>>)]) :
        y \in {NdArray("i8", arange(n)) : n \in 1..MaxLen}
                \cup {sample_recarray, UnicodeArray(2, 1)},
        z \in {None, NdArray("f8", arange(1))}}

MyInstances ==
    {Instance(MySchema(desc), [u |-> None, v |-> sample_recarray, w |-> PyFloat(1),
                               x |-> NdArray("f8", arange(MaxLen)),
                               y |-> NdArray("i4", arange(MaxLen)),
                               z |-> UnicodeArray(k, MaxLen)]) :
        desc \in {"a number", NoDesc}, k \in {1, Len(Texts)}}

Instances == SomeInstances \cup MyInstances

\* The instances of test_to_hdf, and those of SomeSchema with a record array.
HdfInstances == MyInstances \cup {S \in SomeInstances : S.f.y.k = "recarray"}

\* Keyword sets: the data of test_from_json, the same with a keyword that is
\* no trait, and with a value the trait of x refuses.
Keywords ==
    LET data == [x |-> PyList("int", arange(MaxLen)), name |-> PyStr(<<119>>)]
    IN  {data,
         [x |-> data.x, name |-> data.name, bogus |-> PyInt(1)],
         [x |-> PyStr(<<119>>), bogus |-> PyInt(1)],
         [x |-> PyStr(<<119>>)],
         [bogus |-> PyInt(1)]}

Formats == {"npz", "h5", "json", "txt", ""}

\* The file name of a run: 'filename' + format.
Target ==
    IF run.format = "" THEN Path(0, <<"filename">>) ELSE Path(0, <<"filename", run.format>>)

\* What the last call was given and what it did: existed tells whether its
\* target file was there before, scratch which scratch directory it made (0: none).
LastCall(op, S, cls, arg, existed, err, why, ret, scratch) ==
    [op |-> op, S |-> S, cls |-> cls, arg |-> arg, existed |-> existed,
     err |-> err, why |-> why, ret |-> ret, scratch |-> scratch]

Last(op, S, cls, arg, existed, err, why, ret) ==
    LastCall(op, S, cls, arg, existed, err, why, ret, 0)

\* The parameters of a run, as the tests parametrize theirs.
Run(format, archive, compression, compression_opts, encoding) ==
    [format |-> format, archive |-> archive, compression |-> compression,
     compression_opts |-> compression_opts, encoding |-> encoding]

Init ==
    /\ fs = <<>>
    /\ tmp = {}
    /\ last = Last("none", NoObj, NoObj.cls, <<>>, FALSE, "ok", "", NoObj)
    /\ \E format \in Formats : run = Run(format, "zip", "None", "None", "utf8")

\* schema.save(outfile)
Save(S) ==
    LET r == save(fs, Target, S)
    IN  /\ fs' = r.files
        /\ last' = Last("save", S, S.cls, <<>>, Target \in DOMAIN fs, r.err, r.why, NoObj)
        /\ UNCHANGED <<tmp, run>>

\* cls.load(outfile)
Load(cls, allowPickle, castFloat) ==
    LET r == load(cls, fs, Target, allowPickle, castFloat)
    IN  /\ last' = Last("load", NoObj, cls, <<>>, Target \in DOMAIN fs, r.err, r.why, r.obj)
        /\ UNCHANGED <<fs, tmp, run>>

\* obj.to_json()
ToJson(S) ==
    LET r == to_json(S)
    IN  /\ last' = Last("to_json", S, S.cls, <<>>, Target \in DOMAIN fs, r.err, "", r.text)
        /\ UNCHANGED <<fs, tmp, run>>

\* cls(**kwargs)
Construct(cls, kwargs) ==
    LET r == Schema_init(cls, kwargs, FALSE)
    IN  /\ last' = Last("init", NoObj, cls, kwargs, Target \in DOMAIN fs, r.err, r.why, r.obj)
        /\ UNCHANGED <<fs, tmp, run>>

\* cls.from_json(json.dumps(data))
FromJson(cls, kwargs) ==
    LET text == JObj([n \in DOMAIN kwargs |-> Encode(kwargs[n]).j])
        r == from_json(cls, text, FALSE)
    IN  /\ last' = Last("from_json", NoObj, cls, kwargs, Target \in DOMAIN fs,
                         r.err, r.why, r.obj)
        /\ UNCHANGED <<fs, tmp, run>>

\* np.savez(path, **kwargs), as test_from_npz writes its archive
Savez(kwargs) ==
    /\ run.format = "npz"
    /\ fs' = Put(fs, Target, NpzFile([n \in DOMAIN kwargs |-> AsAnyArray(kwargs[n])]))
    /\ last' = Last("savez", NoObj, NoObj.cls, kwargs, Target \in DOMAIN fs, "ok", "", NoObj)
    /\ UNCHANGED <<tmp, run>>

\* json.dump(data, f), as test_from_json writes its file
Dump(kwargs) ==
    /\ run.format = "json"
    /\ fs' = Put(fs, Target, TextFile(JObj([n \in DOMAIN kwargs |-> Encode(kwargs[n]).j])))
    /\ last' = Last("dump", NoObj, NoObj.cls, kwargs, Target \in DOMAIN fs, "ok", "", NoObj)
    /\ UNCHANGED <<tmp, run>>

\* The forms of input test_from_json and a caller with a file name have.
Forms == {"text", "stream", "path"}

\* The data of a form, for the document in the target file: the text read
\* from the file, the file opened for reading, or the file's name.
InputOf(files, form) ==
    CASE form = "text" -> StrData(files[Target].body)
      [] form = "stream" -> OpenFile(files, Target)
      [] OTHER -> StrData(NotJson)

\* cls.from_json(data), for each form of data
FromJsonInput(cls, form) ==
    /\ run.format = "json"
    /\ Target \in DOMAIN fs
    /\ last' = Last("from_json_input", NoObj, cls, form, TRUE,
                     from_json_of(cls, InputOf(fs, form), FALSE).err,
                     from_json_of(cls, InputOf(fs, form), FALSE).why,
                     from_json_of(cls, InputOf(fs, form), FALSE).obj)
    /\ UNCHANGED <<fs, tmp, run>>

Next ==
    \/ \E cls \in Classes, form \in Forms : FromJsonInput(cls, form)
    \/ \E S \in Instances : Save(S)
    \/ \E cls \in Classes, allowPickle \in BOOLEAN, castFloat \in BOOLEAN :
          Load(cls, allowPickle, castFloat)
    \/ \E S \in Instances : ToJson(S)
    \/ \E cls \in Classes, kwargs \in Keywords : Construct(cls, kwargs)
    \/ \E cls \in Classes, kwargs \in Keywords : FromJson(cls, kwargs)
    \/ \E kwargs \in Keywords : Savez(kwargs)
    \/ \E kwargs \in Keywords : Dump(kwargs)

Spec == Init /\ [][Next]_vars

(***************************************************************************)
(* The runs of test_to_hdf: compression and compression_opts are the       *)
(* run's; the mode, the instance and the flags are the call's.             *)
(***************************************************************************)
InitHdf ==
    /\ fs = <<>>
    /\ tmp = {}
    /\ last = Last("none", NoObj, NoObj.cls, <<>>, FALSE, "ok", "", NoObj)
    /\ \E compression \in {"None", "gzip", "lzf"}, compression_opts \in {"None", "6"} :
          run = Run("h5", "zip", compression, compression_opts, "utf8")

\* obj.to_hdf(filename, mode, compression=..., compression_opts=...,
\*            encode_string_arrays=..., encoding=...)
ToHdf(S, mode, encode_string_arrays) ==
    LET o == HdfOpts(mode, run.compression, run.compression_opts,
                     encode_string_arrays, run.encoding)
        r == to_hdf(fs, Target, S, o)
    IN  /\ fs' = r.files
        /\ last' = Last("to_hdf", S, S.cls, o, Target \in DOMAIN fs, r.err, r.why, NoObj)
        /\ UNCHANGED <<tmp, run>>

\* cls.from_hdf(filename, decode_string_arrays=..., encoding=...)
FromHdf(cls, decode_string_arrays) ==
    LET r == IF Target \in DOMAIN fs
             THEN from_hdf(cls, fs[Target], decode_string_arrays, run.encoding, FALSE)
             ELSE Result("OSError", "no such file", NoObj)
    IN  /\ last' = Last("from_hdf", NoObj, cls, decode_string_arrays,
                         Target \in DOMAIN fs, r.err, r.why, r.obj)
        /\ UNCHANGED <<fs, tmp, run>>

NextHdf ==
    \/ \E S \in HdfInstances, mode \in {"w", "a"}, encode_string_arrays \in BOOLEAN :
          ToHdf(S, mode, encode_string_arrays)
    \/ \E cls \in Classes, decode_string_arrays \in BOOLEAN :
          FromHdf(cls, decode_string_arrays)

SpecHdf == InitHdf /\ [][NextHdf]_vars

(***************************************************************************)
(* The runs of the unicode arrays: the encoding is the run's, and is the   *)
(* one of to_hdf and of from_hdf alike; nothing is compressed.             *)
(***************************************************************************)
Encodings == {"utf8", "ascii", "latin1", "utf16"}

\* Instances of MySchema whose z is each array of the texts, up to MaxLen.
UnicodeInstances ==
    {Instance(MySchema(NoDesc), [u |-> None, v |-> sample_recarray, w |-> PyFloat(1),
                                 x |-> NdArray("f8", arange(1)),
                                 y |-> NdArray("i4", arange(1)),
                                 z |-> UnicodeArray(k, n)]) :
        k \in 1..Len(Texts), n \in 1..MaxLen}

InitUnicode ==
    /\ fs = <<>>
    /\ tmp = {}
    /\ last = Last("none", NoObj, NoObj.cls, <<>>, FALSE, "ok", "", NoObj)
    /\ \E encoding \in Encodings : run = Run("h5", "zip", "None", "None", encoding)

NextUnicode ==
    \/ \E S \in UnicodeInstances, encode_string_arrays \in BOOLEAN :
          ToHdf(S, "w", encode_string_arrays)
    \/ \E decode_string_arrays \in BOOLEAN : FromHdf(MySchema(NoDesc), decode_string_arrays)

SpecUnicode == InitUnicode /\ [][NextUnicode]_vars

(***************************************************************************)
(* The bundler (io.py).  A bundle's schema is the sequence of its entries  *)
(* [key, obj], in the order of the caller's dictionary.                    *)
(***************************************************************************)
BUNDLE_VERSION == 1

\* hashlib.sha1(key.encode()).hexdigest()
sha1(key) ==
    CASE key = "a" -> "86f7e437faa5a7fce15d1ddcb9eaeaea377667b8"
      [] key = "b" -> "e9d71f5ee7c92d6dc9e92ffdad17b8bd49418f98"
      [] OTHER -> "80d8960dfe64d6ba1b7bdf8afce21722f26ec903"

\* mkdtemp(): a directory that is no directory yet.
mkdtemp(dirs) == CHOOSE d \in 1..(Cardinality(dirs) + 1) : d \notin dirs

InDir(files, d) == {q \in DOMAIN files : q.dir = d}

\* shutil.rmtree(dirname)
rmtree(files, d) == Remove(files, InDir(files, d))

\* tempdir(): what is left when the with block ends.  The generator removes
\* the directory after its yield, which an exception in the block never
\* reaches.
tempdir(files, dirs, d, raised) ==
    IF raised
    THEN [files |-> files, dirs |-> dirs \cup {d}]
    ELSE [files |-> rmtree(files, d), dirs |-> dirs \ {d}]

\* A bundler that took the tar archives too.
SupportedArchive_WithTar(outfile) == splitext(outfile)[2] \in {"zip", "tar"}

\* outfile.endswith('.zip')
SupportedArchive(outfile) == splitext(outfile)[2] = "zip"

\* The loop of bundle_schema: each object is saved in the staging directory
\* under the hash of its key, until a save raises.
RECURSIVE SaveAll(_, _, _, _, _)
RECURSIVE SaveNext(_, _, _, _, _)
SaveAll(files, d, schema, i, format) ==
    IF i > Len(schema)
    THEN [err |-> "ok", why |-> "", files |-> files]
    ELSE SaveNext(save(files, Path(d, <<sha1(schema[i].key), format>>), schema[i].obj),
                  d, schema, i, format)

\* A save that raises ends the loop; one that returns is followed by the next.
SaveNext(r, d, schema, i, format) ==
    IF r.err # "ok" THEN r ELSE SaveAll(r.files, d, schema, i + 1, format)

\* The index document: the entries in order, and the bundle version.
Index(schema, format) ==
    JObj([schema |-> [i \in 1..Len(schema) |->
                        [key |-> schema[i].key,
                         filename |-> <<sha1(schema[i].key), format>>,
                         classname |-> schema[i].obj.cls.name,
                         module |-> schema[i].obj.cls.module]],
          bundle_version |-> BUNDLE_VERSION])

\* shutil.make_archive(base_name, format, root_dir): the archive of the files
\* of root_dir, written at base_name + '.' + format.
make_archive(files, base, format, d) ==
    LET archive == Path(base.dir, base.parts \o <<format>>)
        members == [name \in {q.parts : q \in InDir(files, d)} |-> files[Path(d, name)]]
    IN  [archive |-> archive, files |-> Put(files, archive, [t |-> format, members |-> members])]

\* shutil.move(src, dst)
move(files, src, dst) == Put(Remove(files, {src}), dst, files[src])

\* The end of a with tempdir() block: the outcome of the call, and what
\* tempdir leaves of the files and the scratch directories.
Leave(err, why, ret, files, dirs, d) ==
    LET left == tempdir(files, dirs \cup {d}, d, err # "ok")
    IN  [err |-> err, why |-> why, ret |-> ret, files |-> left.files,
         dirs |-> left.dirs, scratch |-> d]

\* The failures of the file system a call may meet: none, open() of the
\* index failing, or make_archive failing after it opened its archive.
Faults == {"none", "index", "pack"}

\* An archive that was opened and not finished.
PartialArchive == [t |-> "partial", members |-> <<>>]

\* The index is written, the staging directory archived and the archive
\* moved to outfile.  basename is first the stem of outfile and then, in the
\* loop, the file name of each entry: the archive is made under the last one.
Archive(files, outfile, schema, format, staging_dir, fault) ==
    LET ext == splitext(outfile)
        archive_format == ext[2]
        basename == IF schema = <<>> THEN Path(outfile.dir, ext[1])
                    ELSE Path(0, <<sha1(schema[Len(schema)].key), format>>)
        indexed == Put(files, Path(staging_dir, <<"index", "json">>),
                       TextFile(Index(schema, format)))
        made == make_archive(indexed, basename, archive_format, staging_dir)
    IN  CASE fault = "index" -> [err |-> "OSError", why |-> "index.json", files |-> files]
          [] fault = "pack" ->
                [err |-> "OSError", why |-> "make_archive",
                 files |-> Put(indexed, made.archive, PartialArchive)]
          [] OTHER ->
                [err |-> "ok", why |-> "", files |-> move(made.files, made.archive, outfile)]

NoMapping == <<>>

\* The with block of bundle_schema ends with the outcome r of its last steps.
Archived(r, dirs, staging_dir) == Leave(r.err, r.why, NoMapping, r.files, dirs, staging_dir)

\* The body of the with block of bundle_schema, after the loop.
Bundle(saved, dirs, outfile, schema, format, staging_dir, fault) ==
    IF saved.err # "ok"
    THEN Leave(saved.err, saved.why, NoMapping, saved.files, dirs, staging_dir)
    ELSE Archived(Archive(saved.files, outfile, schema, format, staging_dir, fault),
                  dirs, staging_dir)

\* bundle_schema(outfile, schema, format): the error raised, the files and the
\* scratch directories afterwards.
bundle_schema(files, dirs, outfile, schema, format, fault) ==
    IF ~SupportedArchive(outfile)
    THEN [err |-> "UnsupportedArchiveFormat", why |-> "", ret |-> NoMapping,
          files |-> files, dirs |-> dirs, scratch |-> 0]
    ELSE Bundle(SaveAll(files, mkdtemp(dirs), schema, 1, format),
                dirs, outfile, schema, format, mkdtemp(dirs), fault)

\* import_module(module) and getattr(mod, classname): the classes a module
\* holds at its top level.
ResolveClass(module, classname) ==
    IF module = "test" /\ classname = "SomeSchema"
    THEN [err |-> "ok", cls |-> SomeSchema]
    ELSE [err |-> "AttributeError", cls |-> NoObj.cls]

\* zf.extractall(path)
extractall(files, zf, path) ==
    [q \in DOMAIN files \cup {Path(path, name) : name \in DOMAIN zf.members} |->
        IF q.dir = path THEN zf.members[q.parts] ELSE files[q]]

\* The loop of load_bundle: the class of each entry is looked up and the
\* entry's file loaded with it.
LoadAll(entries, files, path, allowPickle, castFloat) ==
    [i \in 1..Len(entries) |->
        LET found == ResolveClass(entries[i].module, entries[i].classname)
        IN  IF found.err # "ok"
            THEN Result(found.err, "no such class", NoObj)
            ELSE load(found.cls, files, Path(path, entries[i].filename),
                      allowPickle, castFloat)]

\* The mapping load_bundle returns: __meta__ holds the fields of the index
\* other than the entries, and each key the object loaded for it; the first
\* entry that fails to load ends the call.
Loaded(loaded, index, files, dirs, path) ==
    LET entries == index.schema
        meta == [k \in DOMAIN index \ {"schema"} |-> index[k]]
        bad == {i \in 1..Len(entries) : loaded[i].err # "ok"}
        first == CHOOSE i \in bad : \A k \in bad : i <= k
        keys == {entries[i].key : i \in 1..Len(entries)}
        schema == [k \in {"__meta__"} \cup keys |->
                     IF k \in keys
                     THEN loaded[CHOOSE i \in 1..Len(entries) : entries[i].key = k].obj
                     ELSE meta]
    IN  IF bad # {}
        THEN Leave(loaded[first].err, loaded[first].why, NoMapping, files, dirs, path)
        ELSE Leave("ok", "", schema, files, dirs, path)

\* load_bundle(filename): the mapping returned, or the error raised, and the
\* files and scratch directories afterwards.
load_bundle(files, dirs, filename, allowPickle, castFloat) ==
    LET path == mkdtemp(dirs)
        zf == files[filename]
        extracted == extractall(files, zf, path)
        index == extracted[Path(path, <<"index", "json">>)].body.m
    IN  IF filename \notin DOMAIN files
        THEN Leave("FileNotFoundError", "no such archive", NoMapping, files, dirs, path)
        ELSE IF zf.t # "zip"
        THEN Leave("BadZipFile", "not a zip file", NoMapping, files, dirs, path)
        ELSE IF Path(path, <<"index", "json">>) \notin DOMAIN extracted
        THEN Leave("FileNotFoundError", "no index.json", NoMapping, extracted, dirs, path)
        ELSE Loaded(LoadAll(index.schema, extracted, path, allowPickle, castFloat),
                    index, extracted, dirs, path)

(***************************************************************************)
(* The runs of the bundler: the format of the entries and the extension of *)
(* the archive are the run's; the schema is the call's.                    *)
(***************************************************************************)
Entry(key, obj) == [key |-> key, obj |-> obj]

\* Instances of a module-level class: plain, with a None field, and with a
\* record array.
BundleInstances ==
    {S \in SomeInstances :
        /\ S.f.y.dt # "U"
        /\ S.f.y.k = "ndarray" => Len(S.f.y.d) = MaxLen
        /\ S.f.y.k = "recarray" => S.f.z.k # "None"}

Mappings ==
    {<<>>}
    \cup {<<Entry(k, S)>> : k \in {"a", "__meta__"}, S \in BundleInstances}
    \cup {<<Entry("a", S), Entry("b", T)>> : S \in BundleInstances, T \in BundleInstances}

\* The calls of bundle_schema: every mapping with a file system that works,
\* and the empty mapping and the mappings of one entry without None and
\* without a record array, with each failure of the file system.
BundleCalls ==
    {<<schema, "none">> : schema \in Mappings}
    \cup {<<schema, fault>> :
            schema \in {M \in Mappings :
                          \/ Len(M) = 0
                          \/ /\ Len(M) = 1
                             /\ M[1].key = "a"
                             /\ M[1].obj.f.z.k # "None"
                             /\ M[1].obj.f.y.k = "ndarray"},
            fault \in Faults}

Outfile == Path(0, <<"bundle", run.archive>>)

InitBundle ==
    /\ fs = <<>>
    /\ tmp = {}
    /\ last = Last("none", NoObj, NoObj.cls, <<>>, FALSE, "ok", "", NoObj)
    /\ \E format \in {"npz", "h5", "json", "txt"}, archive \in {"zip", "tar", "txt"} :
          run = Run(format, archive, "None", "None", "utf8")

\* The outcome r of a call of the bundler becomes the state.
Return(op, arg, r) ==
    /\ fs' = r.files
    /\ tmp' = r.dirs
    /\ last' = LastCall(op, NoObj, NoObj.cls, arg, Outfile \in DOMAIN fs,
                         r.err, r.why, r.ret, r.scratch)
    /\ UNCHANGED run

\* bundle_schema(outfile, schema, format)
BundleSchema(schema, fault) ==
    /\ SupportedArchive(Outfile) => Cardinality(tmp) < MaxTmp
    /\ Return("bundle_schema", schema,
              bundle_schema(fs, tmp, Outfile, schema, run.format, fault))

\* load_bundle(filename)
LoadBundle(allowPickle, castFloat) ==
    /\ Cardinality(tmp) < MaxTmp
    /\ Return("load_bundle", <<>>, load_bundle(fs, tmp, Outfile, allowPickle, castFloat))

NextBundle ==
    \/ \E call \in BundleCalls : BundleSchema(call[1], call[2])
    \/ \E allowPickle \in BOOLEAN, castFloat \in BOOLEAN : LoadBundle(allowPickle, castFloat)

SpecBundle == InitBundle /\ [][NextBundle]_vars

(***************************************************************************)
(* Comparing instances field by field: scalars by equality, arrays by      *)
(* shape and items (a number equals a number of any numeric dtype; a text  *)
(* never equals a byte string).                                            *)
(***************************************************************************)
DtypeClass(dt) == IF IsNumeric(dt) THEN "number" ELSE dt

ValueEq(a, b) ==
    IF a.k \in {"None", "float", "int", "str"} \/ b.k \in {"None", "float", "int", "str"}
    THEN /\ (a.k = b.k \/ {a.k, b.k} = {"float", "int"})
         /\ a.d = b.d
    ELSE /\ (a.k = "ndarray0") = (b.k = "ndarray0")
         /\ DtypeClass(a.dt) = DtypeClass(b.dt)
         /\ Len(a.cols) = Len(b.cols)
         /\ \A c \in 1..Len(a.cols) :
                /\ a.cols[c].name = b.cols[c].name
                /\ DtypeClass(a.cols[c].dt) = DtypeClass(b.cols[c].dt)
         /\ a.d = b.d

SameFields(A, B) ==
    /\ A.cls = B.cls
    /\ DOMAIN A.f = DOMAIN B.f
    /\ \A n \in DOMAIN A.f : ValueEq(A.f[n], B.f[n])

HasRecarray(S) == \E n \in DOMAIN S.f : S.f[n].k = "recarray"

Ext == splitext(Target)[2]

\* The file at the target is the file S.save writes.
WrittenBy(S) ==
    /\ Target \in DOMAIN fs
    /\ save(<<>>, Target, S).err = "ok"
    /\ fs[Target] = save(<<>>, Target, S).files[Target]

\* The fields of S are representable in the format: the text format holds no
\* record array, and the npz archive needs casting traits for its scalars.
Representable(S, format) ==
    /\ format = "json" => ~HasRecarray(S)
    /\ format = "npz" => \A n \in FieldSet(S.cls) : trait(S.cls, n).trait # "Float"

(***************************************************************************)
(* C1  Round trip: load of the file written by S.save is an instance equal *)
(* to S field by field, in each of the three formats, for every S whose    *)
(* fields are representable in the format.                                 *)
(***************************************************************************)
C1_RoundTrip ==
    \A S \in Instances :
        (/\ last.op = "load"
         /\ last.cls = S.cls
         /\ Ext \in {"npz", "h5", "json"}
         /\ Representable(S, Ext)
         /\ WrittenBy(S))
        => (last.err = "ok" /\ SameFields(last.ret, S))

(***************************************************************************)
(* C2  For a path whose extension is none of npz, h5, json, save and load  *)
(* fail with the error of the extension lookup, which names the extension, *)
(* and no file exists at the path afterwards.                              *)
(***************************************************************************)
C2_UnsupportedFormat ==
    (last.op \in {"save", "load"} /\ Ext \notin {"npz", "h5", "json"})
    => (last.err = "KeyError" /\ last.why = Ext /\ Target \notin DOMAIN fs)

C2_Witness ==
    /\ last.op = "save"
    /\ Ext = "txt"
    /\ last.err = "KeyError"

(***************************************************************************)
(* C3  Constructing with a keyword that is no declared field fails with    *)
(* the unknown-field error and returns no instance, whether the keywords   *)
(* come from a constructor call, an npz archive or a JSON object.          *)
(***************************************************************************)
C3_UnknownFieldRejected ==
    LET keys == CASE last.op \in {"init", "from_json"} -> DOMAIN last.arg
                  [] last.op = "load" /\ Ext = "npz" /\ Target \in DOMAIN fs ->
                        DOMAIN fs[Target].entries
                  [] last.op = "load" /\ Ext = "json" /\ Target \in DOMAIN fs
                        /\ fs[Target].body.j = "obj" -> DOMAIN fs[Target].body.m
                  [] OTHER -> {}
    IN  (\E n \in keys : n \notin FieldSet(last.cls))
        => (last.err = "RuntimeError" /\ last.ret = NoObj)

(***************************************************************************)
(* C4  An instance with a record-array field fails text encoding with the  *)
(* structured-data error and produces no output file: to_json raises, and  *)
(* save to a .json path raises and leaves no file where none was before.   *)
(***************************************************************************)
C4_NoOutputOnRecarray ==
    (/\ last.op \in {"save", "to_json"}
     /\ last.op = "save" => Ext = "json"
     /\ HasRecarray(last.S))
    => (/\ last.err = "RuntimeError"
        /\ ~last.existed => Target \notin DOMAIN fs)

(***************************************************************************)
(* C5  to_hdf with lzf and a compression_opts that is not None fails with  *)
(* the compression error before the target file is created and before any *)
(* dataset is written.                                                     *)
(***************************************************************************)
C5_CompressionValidated ==
    (/\ last.op = "to_hdf"
     /\ last.arg.compression = "lzf"
     /\ last.arg.compression_opts # "None")
    => (/\ last.err = "ValueError"
        /\ ~last.existed => Target \notin DOMAIN fs)

(***************************************************************************)
(* C6  A field whose value is None is no dataset of the file to_hdf writes *)
(* and no key of the archive to_npz writes, and is None again after        *)
(* loading the file.                                                       *)
(***************************************************************************)
Names(file) == IF file.t = "npz" THEN DOMAIN file.entries ELSE DOMAIN file.dsets

C6_AbsentSkipped ==
    \A S \in Instances :
        (Ext \in {"npz", "h5"} /\ WrittenBy(S))
        => \A n \in FieldSet(S.cls) :
              S.f[n].k = "None"
              => (/\ n \notin Names(fs[Target])
                  /\ (last.op = "load" /\ last.cls = S.cls /\ last.err = "ok")
                        => last.ret.f[n].k = "None")

(***************************************************************************)
(* C7  The scratch directory that bundle_schema or load_bundle allocated   *)
(* exists no more once the call has returned or raised, and neither does   *)
(* any file in it.                                                         *)
(***************************************************************************)
C7_ScratchRemoved ==
    (last.op \in {"bundle_schema", "load_bundle"} /\ last.scratch # 0)
    => (last.scratch \notin tmp /\ InDir(fs, last.scratch) = {})

(***************************************************************************)
(* C8  load_bundle of the archive bundle_schema wrote for a mapping M      *)
(* returns a mapping whose keys are the keys of M and __meta__, where each *)
(* key of M holds an instance equal to M's and __meta__ holds the index    *)
(* fields other than the entries, with bundle_version 1.                   *)
(***************************************************************************)
BundleOf(M) == bundle_schema(<<>>, {}, Outfile, M, run.format, "none")

C8_BundleRoundTrip ==
    \A M \in Mappings :
        (/\ last.op = "load_bundle"
         /\ Outfile \in DOMAIN fs
         /\ BundleOf(M).err = "ok"
         /\ fs[Outfile] = BundleOf(M).files[Outfile])
        => (/\ last.err = "ok"
            /\ DOMAIN last.ret = {M[i].key : i \in 1..Len(M)} \cup {"__meta__"}
            /\ \A i \in 1..Len(M) : SameFields(last.ret[M[i].key], M[i].obj)
            /\ "bundle_version" \in DOMAIN last.ret["__meta__"]
            /\ last.ret["__meta__"].bundle_version = 1)

(***************************************************************************)
(* C9  As stated: bundle_schema accepts the zip and tar extensions and     *)
(* makes the archive of that type; for any other extension it fails with   *)
(* UnsupportedArchiveFormat and has allocated no scratch directory.        *)
(***************************************************************************)
C9_ZipAndTarAccepted ==
    last.op = "bundle_schema"
    => IF run.archive \in {"zip", "tar"}
       THEN /\ last.err # "UnsupportedArchiveFormat"
            /\ last.err = "ok" => fs[Outfile].t = run.archive
       ELSE last.err = "UnsupportedArchiveFormat" /\ last.scratch = 0

(***************************************************************************)
(* C9  As the code has it: bundle_schema accepts the zip extension only,   *)
(* and the archive it makes is a zip archive at the output file name; for  *)
(* any other extension, tar included, it fails with                        *)
(* UnsupportedArchiveFormat, and the call allocates no scratch directory   *)
(* and leaves every file as it was.                                        *)
(***************************************************************************)
C9_OnlyZipAccepted ==
    [][last'.op = "bundle_schema"
       => IF run.archive = "zip"
          THEN /\ last'.err # "UnsupportedArchiveFormat"
               /\ last'.err = "ok" => (Outfile \in DOMAIN fs' /\ fs'[Outfile].t = "zip")
          ELSE /\ last'.err = "UnsupportedArchiveFormat"
               /\ last'.scratch = 0
               /\ tmp' = tmp
               /\ fs' = fs]_vars

C9_Witness ==
    /\ last.op = "bundle_schema"
    /\ run.archive = "tar"
    /\ last.arg # <<>>
    /\ last.err = "UnsupportedArchiveFormat"
    /\ tmp # {}

EncodedBy(S) ==
    to_hdf(<<>>, Target, S, HdfOpts("w", run.compression, run.compression_opts,
                                    TRUE, run.encoding))

C11_UnicodeRoundTrip ==
    \A S \in UnicodeInstances :
        (/\ last.op = "from_hdf"
         /\ last.arg = TRUE
         /\ last.cls = S.cls
         /\ \A i \in 1..Len(S.f.z.d) : CanEncode(S.f.z.d[i], run.encoding)
         /\ Target \in DOMAIN fs
         /\ EncodedBy(S).err = "ok"
         /\ fs[Target] = EncodedBy(S).files[Target])
        => (/\ last.err = "ok"
            /\ last.ret.f.z.dt = "U"
            /\ last.ret.f.z.d = S.f.z.d)

(***************************************************************************)
(* C12  Saving the same instance a second time in a row to the same path,  *)
(* in any of the three formats (to_hdf in its default mode "w"), succeeds  *)
(* when the first save did, and leaves the file as the first save left it: *)
(* the same fields and the same attributes, so that it reloads the same.   *)
(***************************************************************************)
C12_Idempotent ==
    [][(/\ last.op = "save"
        /\ last.err = "ok"
        /\ last'.op = "save"
        /\ last'.S = last.S)
       => (/\ last'.err = "ok"
           /\ fs' = fs
           /\ \A allowPickle \in BOOLEAN, castFloat \in BOOLEAN :
                 load(last.S.cls, fs', Target, allowPickle, castFloat)
                   = load(last.S.cls, fs, Target, allowPickle, castFloat))]_vars

C12_Witness ==
    /\ last.op = "save"
    /\ last.existed
    /\ last.err = "ok"
    /\ Ext = "h5"
    /\ WrittenBy(last.S)

(***************************************************************************)
(* C13  As stated: from_json given the path of a file gives what from_json *)
(* given the open file gives.                                              *)
(***************************************************************************)
C13_PathOrStream ==
    (last.op = "from_json_input" /\ last.arg = "path")
    => (/\ last.err = from_json_of(last.cls, InputOf(fs, "stream"), FALSE).err
        /\ last.ret = from_json_of(last.cls, InputOf(fs, "stream"), FALSE).obj)

(***************************************************************************)
(* C13  As the code has it: from_json takes the JSON text as a string, or  *)
(* a file open for reading; for the same document both give the same       *)
(* outcome, the same instance when one is constructed.  A string is always *)
(* parsed as the text, so a file name fails as no JSON document.           *)
(***************************************************************************)
C13_TextOrStream ==
    last.op = "from_json_input"
    => IF last.arg = "path"
       THEN last.err = "ValueError" /\ last.ret = NoObj
       ELSE \A form \in {"text", "stream"} :
               /\ last.err = from_json_of(last.cls, InputOf(fs, form), FALSE).err
               /\ last.ret = from_json_of(last.cls, InputOf(fs, form), FALSE).obj

C13_Witness ==
    /\ last.op = "from_json_input"
    /\ last.arg = "stream"
    /\ last.err = "ok"
    /\ last.ret.f.x.d = arange(MaxLen)

(***************************************************************************)
(* C14  After a to_hdf call in either mode the container holds exactly the *)
(* datasets of the fields of the saved instance that are not None, and no  *)
(* call fails because of what an earlier call left in the file.            *)
(***************************************************************************)
C14_FreshContainer ==
    last.op = "to_hdf"
    => (/\ ~(last.err = "RuntimeError" /\ last.why = "name already exists")
        /\ last.err = "ok"
              => DOMAIN fs[Target].dsets
                    = {n \in FieldSet(last.S.cls) : last.S.f[n].k # "None"})

(***************************************************************************)
(* C15  bundle_schema touches the output file only by the final move: a    *)
(* call that fails leaves the output file as it was before the call, and a *)
(* call that succeeds leaves no new file in the caller's directory other   *)
(* than the output file.                                                   *)
(***************************************************************************)
C15_OutfileWrittenLast ==
    [][last'.op = "bundle_schema"
       => (/\ last'.err # "ok"
                => (/\ (Outfile \in DOMAIN fs') = (Outfile \in DOMAIN fs)
                    /\ Outfile \in DOMAIN fs => fs'[Outfile] = fs[Outfile])
           /\ last'.err = "ok"
                => {q \in DOMAIN fs' : q.dir = 0} \ DOMAIN fs \subseteq {Outfile})]_vars

====
